---- MODULE Spec2Model ----
(***************************************************************************)
(* Surface rotation sample: the per-frame update of SurfaceRotation, its   *)
(* rotation detector, its pre-transform policy and its swapchain           *)
(* recreation, run against a surface whose extent and transform change     *)
(* on their own (samples/advanced/surface_rotation/surface_rotation.cpp).  *)
(***************************************************************************)
EXTENDS Integers, Sequences, FiniteSets, TLC

\* Surface extents are the width x height pairs with width + height = MaxDim + 1:
\* the portrait and landscape shapes of one screen.
MaxDim == 2

\* VkSurfaceTransformFlagBitsKHR, as named by the sample.
VK_SURFACE_TRANSFORM_IDENTITY_BIT_KHR == 1
VK_SURFACE_TRANSFORM_ROTATE_90_BIT_KHR == 2
VK_SURFACE_TRANSFORM_ROTATE_180_BIT_KHR == 4
VK_SURFACE_TRANSFORM_ROTATE_270_BIT_KHR == 8
VK_SURFACE_TRANSFORM_HORIZONTAL_MIRROR_BIT_KHR == 16
VK_SURFACE_TRANSFORM_HORIZONTAL_MIRROR_ROTATE_90_BIT_KHR == 32
VK_SURFACE_TRANSFORM_HORIZONTAL_MIRROR_ROTATE_180_BIT_KHR == 64
VK_SURFACE_TRANSFORM_HORIZONTAL_MIRROR_ROTATE_270_BIT_KHR == 128
VK_SURFACE_TRANSFORM_INHERIT_BIT_KHR == 256
VK_SURFACE_TRANSFORM_FLAG_BITS_MAX_ENUM_KHR == 2147483647
\* A flag bit no case of transform_to_string names ("[Unknown transform flag]").
UNKNOWN_TRANSFORM_FLAG == 512

Identity == VK_SURFACE_TRANSFORM_IDENTITY_BIT_KHR

MirrorTransforms ==
    { VK_SURFACE_TRANSFORM_HORIZONTAL_MIRROR_BIT_KHR,
      VK_SURFACE_TRANSFORM_HORIZONTAL_MIRROR_ROTATE_90_BIT_KHR,
      VK_SURFACE_TRANSFORM_HORIZONTAL_MIRROR_ROTATE_180_BIT_KHR,
      VK_SURFACE_TRANSFORM_HORIZONTAL_MIRROR_ROTATE_270_BIT_KHR }

\* The values a VkSurfaceTransformFlagBitsKHR takes in the sample.
Transforms ==
    { VK_SURFACE_TRANSFORM_IDENTITY_BIT_KHR,
      VK_SURFACE_TRANSFORM_ROTATE_90_BIT_KHR,
      VK_SURFACE_TRANSFORM_ROTATE_180_BIT_KHR,
      VK_SURFACE_TRANSFORM_ROTATE_270_BIT_KHR,
      VK_SURFACE_TRANSFORM_INHERIT_BIT_KHR,
      VK_SURFACE_TRANSFORM_FLAG_BITS_MAX_ENUM_KHR,
      UNKNOWN_TRANSFORM_FLAG } \cup MirrorTransforms

\* The transforms the surface takes where it also changes during an update.
AsyncTransforms ==
    { VK_SURFACE_TRANSFORM_IDENTITY_BIT_KHR,
      VK_SURFACE_TRANSFORM_ROTATE_90_BIT_KHR,
      VK_SURFACE_TRANSFORM_ROTATE_180_BIT_KHR }

Extents == { e \in (1..MaxDim) \X (1..MaxDim) : e[1] + e[2] = MaxDim + 1 }

\* The C++ operator & on two non-negative 32-bit values.
RECURSIVE BitAnd(_, _)
BitAnd(a, b) ==
    IF a = 0 \/ b = 0 THEN 0
    ELSE (a % 2) * (b % 2) + 2 * BitAnd(a \div 2, b \div 2)

VARIABLES
    surface,            \* what vkGetPhysicalDeviceSurfaceCapabilitiesKHR reports now
    rc_surface_extent,  \* RenderContext::get_surface_extent()
    swapchain,          \* RenderContext::get_swapchain(): extent and transform
    rc_pre_transform,   \* the value last given to RenderContext::set_pre_transform
    pre_rotate,         \* SurfaceRotation::pre_rotate (GUI checkbox / configuration)
    last_pre_rotate,    \* SurfaceRotation::last_pre_rotate
    pc,                 \* position of the frame loop inside SurfaceRotation::update
    ret,                \* where recreate_swapchain returns to
    log,                \* calls the update in progress has made on the device, the
                        \* render context, the Gui and the camera, in call order
    start,              \* surface, swapchain and policy as the update in progress found them
    changed,            \* the surface has changed since the update in progress began
    recs                \* what each recreate_swapchain of this update queried and left

vars == << surface, rc_surface_extent, swapchain, rc_pre_transform, pre_rotate,
           last_pre_rotate, pc, ret, log, start, changed, recs >>

NoStart == [valid |-> FALSE]

(***************************************************************************)
(* Pure parts of the sample.                                               *)
(***************************************************************************)

\* A faulty variant: the policy is ignored and the surface's transform always passed on.
SelectPreTransformAlwaysCurrent(pr, props) == props.transform

\* SurfaceRotation::select_pre_transform, after the capability query.
SelectPreTransform(pr, props) ==
    IF pr THEN props.transform
    ELSE VK_SURFACE_TRANSFORM_IDENTITY_BIT_KHR

\* A faulty variant: the extents are not compared.
NeedsRecreateIgnoringExtent(props, rc_extent, sc_transform, pr) ==
    pr /\ props.transform # sc_transform

\* A faulty variant: the policy is not consulted.
NeedsRecreateIgnoringPolicy(props, rc_extent, sc_transform, pr) ==
    /\ props.extent[1] = rc_extent[1]
    /\ props.extent[2] = rc_extent[2]
    /\ props.transform # sc_transform

\* A faulty variant: the detector never asks for a recreation.
NeedsRecreateNever(props, rc_extent, sc_transform, pr) == FALSE

\* The condition of handle_no_resize_rotations.
NeedsRecreate(props, rc_extent, sc_transform, pr) ==
    /\ props.extent[1] = rc_extent[1]
    /\ props.extent[2] = rc_extent[2]
    /\ (pr /\ props.transform # sc_transform)

\* A faulty variant: the angles of the 270 and the 180 degree branches are exchanged.
PreRotateDegreesExchanged(t) ==
    IF BitAnd(t, VK_SURFACE_TRANSFORM_ROTATE_90_BIT_KHR) # 0 THEN 90
    ELSE IF BitAnd(t, VK_SURFACE_TRANSFORM_ROTATE_270_BIT_KHR) # 0 THEN 180
    ELSE IF BitAnd(t, VK_SURFACE_TRANSFORM_ROTATE_180_BIT_KHR) # 0 THEN 270
    ELSE 0

\* The if / else-if chain of update: degrees of the camera pre-rotation.
PreRotateDegrees(t) ==
    IF BitAnd(t, VK_SURFACE_TRANSFORM_ROTATE_90_BIT_KHR) # 0 THEN 90
    ELSE IF BitAnd(t, VK_SURFACE_TRANSFORM_ROTATE_270_BIT_KHR) # 0 THEN 270
    ELSE IF BitAnd(t, VK_SURFACE_TRANSFORM_ROTATE_180_BIT_KHR) # 0 THEN 180
    ELSE 0

\* glm::vec3(0.0f, 0.0f, -1.0f)
RotationAxis == << 0, 0, -1 >>

\* static_cast<float>(extent.width) / extent.height, kept as the fraction.
AspectRatio(extent) == << extent[1], extent[2] >>

\* RenderContext::update_swapchain(extent, transform): the swapchain rebuilt.
UpdateSwapchain(extent, transform) == [extent |-> extent, transform |-> transform]

(***************************************************************************)
(* Initial state: prepare() has run, no update has.                        *)
(***************************************************************************)
InitWith(transforms) ==
    /\ surface \in [extent : Extents, transform : transforms]
    /\ rc_surface_extent = surface.extent
    /\ swapchain = [extent |-> surface.extent, transform |-> Identity]
    /\ rc_pre_transform = Identity
    /\ pre_rotate = FALSE
    /\ last_pre_rotate = FALSE
    /\ pc = "idle"
    /\ ret = "none"
    /\ log = << >>
    /\ start = NoStart
    /\ changed = FALSE
    /\ recs = << >>

Init == InitWith(Transforms)

InitAsync == InitWith(AsyncTransforms)

(***************************************************************************)
(* The environment: the platform resizes or rotates the surface.           *)
(***************************************************************************)

\* Between two frames, to any extent and transform.
SurfaceChange ==
    /\ pc = "idle"
    /\ \E props \in [extent : Extents, transform : Transforms] :
          /\ props # surface
          /\ surface' = props
    /\ UNCHANGED << rc_surface_extent, swapchain, rc_pre_transform, pre_rotate,
                    last_pre_rotate, pc, ret, log, start, changed, recs >>

\* At any moment, also between two capability queries of one update.
SurfaceChangeAsync ==
    /\ pc # "aborted"
    /\ \E props \in [extent : Extents, transform : AsyncTransforms] :
          /\ props # surface
          /\ surface' = props
    /\ changed' = (pc # "idle")
    /\ UNCHANGED << rc_surface_extent, swapchain, rc_pre_transform, pre_rotate,
                    last_pre_rotate, pc, ret, log, start, recs >>

\* The constructor's configurations (lines 43-44) set pre_rotate between two frames.
SetConfiguration ==
    /\ pc = "idle"
    /\ pre_rotate' = ~pre_rotate
    /\ UNCHANGED << surface, rc_surface_extent, swapchain, rc_pre_transform,
                    last_pre_rotate, pc, ret, log, start, changed, recs >>

(***************************************************************************)
(* SurfaceRotation::update, one step per call it makes.                    *)
(***************************************************************************)

\* vkGetPhysicalDeviceSurfaceCapabilitiesKHR, as the log records it.
Query == [op |-> "query", props |-> surface]

\* VK_CHECK on a failed capability query: the update goes no further.
Abort ==
    /\ pc' = "aborted"
    /\ log' = Append(log, [op |-> "query_failed"])
    /\ UNCHANGED << surface, rc_surface_extent, swapchain, rc_pre_transform, pre_rotate,
                    last_pre_rotate, ret, start, changed, recs >>

\* update() line 83: handle_no_resize_rotations().
HandleNoResizeRotations ==
    /\ pc = "idle"
    /\ \E ok \in BOOLEAN :
          IF ok
          THEN LET fire == NeedsRecreate(surface, rc_surface_extent,
                                         swapchain.transform, pre_rotate)
               IN  /\ start' = [valid |-> TRUE, surface |-> surface,
                                rc_surface_extent |-> rc_surface_extent,
                                swapchain |-> swapchain,
                                pre_rotate |-> pre_rotate,
                                last_pre_rotate |-> last_pre_rotate]
                   /\ log' = Append(log, Query)
                   /\ pc' = IF fire THEN "wait_idle" ELSE "toggle"
                   /\ ret' = IF fire THEN "toggle" ELSE ret
                   /\ UNCHANGED << surface, rc_surface_extent, swapchain,
                                   rc_pre_transform, pre_rotate, last_pre_rotate,
                                   changed, recs >>
          ELSE Abort

\* A faulty variant: recreate_swapchain goes on without waiting for the device.
WaitIdleSkipped ==
    /\ pc = "wait_idle"
    /\ pc' = "update_swapchain"
    /\ UNCHANGED << surface, rc_surface_extent, swapchain, rc_pre_transform, pre_rotate,
                    last_pre_rotate, ret, log, start, changed, recs >>

\* recreate_swapchain() line 209: get_device().wait_idle().
WaitIdle ==
    /\ pc = "wait_idle"
    /\ log' = Append(log, [op |-> "wait_idle"])
    /\ pc' = "update_swapchain"
    /\ UNCHANGED << surface, rc_surface_extent, swapchain, rc_pre_transform, pre_rotate,
                    last_pre_rotate, ret, start, changed, recs >>

\* A faulty variant: the extent is the current swapchain's with width and height exchanged.
RecreateExtentTransposed == << swapchain.extent[2], swapchain.extent[1] >>

\* recreate_swapchain() line 211: the extent handed to the render context and the Gui.
RecreateExtent == rc_surface_extent

\* A faulty variant: the result of the capability query is not checked, and the
\* swapchain is rebuilt after a failed query too.
RecreateUpdateSwapchainUnchecked ==
    /\ pc = "update_swapchain"
    /\ \E ok \in BOOLEAN :
          LET t == SelectPreTransform(pre_rotate, surface)
          IN  /\ swapchain' = UpdateSwapchain(RecreateExtent, t)
              /\ log' = log \o << IF ok THEN Query ELSE [op |-> "query_failed"],
                                  [op |-> "update_swapchain",
                                   extent |-> RecreateExtent, transform |-> t] >>
              /\ pc' = "gui_resize"
              /\ UNCHANGED << surface, rc_surface_extent, rc_pre_transform,
                              pre_rotate, last_pre_rotate, ret, start, changed,
                              recs >>

\* recreate_swapchain() lines 211-213: update_swapchain(surface_extent, select_pre_transform()).
RecreateUpdateSwapchain ==
    /\ pc = "update_swapchain"
    /\ \E ok \in BOOLEAN :
          IF ok
          THEN LET t == SelectPreTransform(pre_rotate, surface)
               IN  /\ swapchain' = UpdateSwapchain(RecreateExtent, t)
                   /\ log' = log \o << Query,
                                       [op |-> "update_swapchain",
                                        extent |-> RecreateExtent, transform |-> t] >>
                   /\ pc' = "gui_resize"
                   /\ UNCHANGED << surface, rc_surface_extent, rc_pre_transform,
                                   pre_rotate, last_pre_rotate, ret, start, changed,
                                   recs >>
          ELSE Abort

\* recreate_swapchain() lines 215-218: if (gui) gui->resize(...), and the return.
\* prepare() line 76 has created the Gui before any update.
RecreateGuiResize ==
    /\ pc = "gui_resize"
    /\ log' = Append(log, [op |-> "gui_resize", extent |-> RecreateExtent])
    /\ recs' = Append(recs, [queried |-> log[Len(log) - 1].props,
                             swapchain |-> swapchain, gui_size |-> RecreateExtent])
    /\ pc' = ret
    /\ UNCHANGED << surface, rc_surface_extent, swapchain, rc_pre_transform, pre_rotate,
                    last_pre_rotate, ret, start, changed >>

\* update() lines 86-88: if (pre_rotate != last_pre_rotate) recreate_swapchain().
ToggleCheck ==
    /\ pc = "toggle"
    /\ IF pre_rotate # last_pre_rotate
       THEN pc' = "wait_idle" /\ ret' = "toggle_done"
       ELSE pc' = "camera" /\ ret' = ret
    /\ UNCHANGED << surface, rc_surface_extent, swapchain, rc_pre_transform, pre_rotate,
                    last_pre_rotate, log, start, changed, recs >>

\* A faulty variant: the policy seen by this update is not remembered.
ToggleDoneForgets ==
    /\ pc = "toggle_done"
    /\ pc' = "camera"
    /\ UNCHANGED << surface, rc_surface_extent, swapchain, rc_pre_transform, pre_rotate,
                    last_pre_rotate, ret, log, start, changed, recs >>

\* update() line 90: last_pre_rotate = pre_rotate.
ToggleDone ==
    /\ pc = "toggle_done"
    /\ last_pre_rotate' = pre_rotate
    /\ pc' = "camera"
    /\ UNCHANGED << surface, rc_surface_extent, swapchain, rc_pre_transform, pre_rotate,
                    ret, log, start, changed, recs >>

\* A faulty variant: the aspect ratio is taken from the extent the surface reports.
UpdateCameraSurfaceExtent ==
    /\ pc = "camera"
    /\ log' = log \o << [op |-> "set_aspect_ratio",
                         aspect |-> AspectRatio(surface.extent)],
                        [op |-> "set_pre_rotation",
                         degrees |-> PreRotateDegrees(swapchain.transform),
                         axis |-> RotationAxis] >>
    /\ pc' = "pre_transform"
    /\ UNCHANGED << surface, rc_surface_extent, swapchain, rc_pre_transform, pre_rotate,
                    last_pre_rotate, ret, start, changed, recs >>

\* update() lines 93-117: the camera follows the swapchain as it is now.
UpdateCamera ==
    /\ pc = "camera"
    /\ log' = log \o << [op |-> "set_aspect_ratio",
                         aspect |-> AspectRatio(swapchain.extent)],
                        [op |-> "set_pre_rotation",
                         degrees |-> PreRotateDegrees(swapchain.transform),
                         axis |-> RotationAxis] >>
    /\ pc' = "pre_transform"
    /\ UNCHANGED << surface, rc_surface_extent, swapchain, rc_pre_transform, pre_rotate,
                    last_pre_rotate, ret, start, changed, recs >>

\* update() line 119: get_render_context().set_pre_transform(select_pre_transform()).
SetPreTransform ==
    /\ pc = "pre_transform"
    /\ \E ok \in BOOLEAN :
          IF ok
          THEN LET t == SelectPreTransform(pre_rotate, surface)
               IN  /\ rc_pre_transform' = t
                   /\ log' = log \o << Query,
                                       [op |-> "set_pre_transform", transform |-> t] >>
                   /\ pc' = "base_update"
                   /\ UNCHANGED << surface, rc_surface_extent, swapchain, pre_rotate,
                                   last_pre_rotate, ret, start, changed, recs >>
          ELSE Abort

\* update() line 121, VulkanSample::update: the render context begins the frame.
\* A surface extent other than the render context's is the resize path: the
\* swapchain is rebuilt with the new extent and the pre-transform set before.
BeginFrame ==
    /\ pc = "base_update"
    /\ log' = Append(log, [op |-> "begin_frame"])
    /\ IF surface.extent # rc_surface_extent
       THEN /\ swapchain' = UpdateSwapchain(surface.extent, rc_pre_transform)
            /\ rc_surface_extent' = surface.extent
       ELSE UNCHANGED << swapchain, rc_surface_extent >>
    /\ pc' = "draw_gui"
    /\ UNCHANGED << surface, rc_pre_transform, pre_rotate, last_pre_rotate, ret, start,
                    changed, recs >>

\* draw_gui(): ImGui::Checkbox(..., &pre_rotate) may flip pre_rotate; the frame
\* ends and update returns.
DrawGui ==
    /\ pc = "draw_gui"
    /\ \E clicked \in BOOLEAN : pre_rotate' = (IF clicked THEN ~pre_rotate ELSE pre_rotate)
    /\ pc' = "idle"
    /\ ret' = "none"
    /\ log' = << >>
    /\ start' = NoStart
    /\ changed' = FALSE
    /\ recs' = << >>
    /\ UNCHANGED << surface, rc_surface_extent, swapchain, rc_pre_transform,
                    last_pre_rotate >>

\* One frame of the sample.
Update ==
    \/ HandleNoResizeRotations
    \/ WaitIdle
    \/ RecreateUpdateSwapchain
    \/ RecreateGuiResize
    \/ ToggleCheck
    \/ ToggleDone
    \/ UpdateCamera
    \/ SetPreTransform
    \/ BeginFrame
    \/ DrawGui

Next ==
    \/ SurfaceChange
    \/ SetConfiguration
    \/ Update

NextAsync ==
    \/ SurfaceChangeAsync
    \/ SetConfiguration
    \/ Update

\* The surface changes between frames, over every transform value.
Spec == Init /\ [][Next]_vars

\* The surface changes at any moment, over the transforms of AsyncTransforms.
SpecAsync == InitAsync /\ [][NextAsync]_vars

(***************************************************************************)
(* Reading the log of the update in progress.                              *)
(***************************************************************************)
IsEffect(e) == e.op # "query"

\* The calls other than capability queries, in call order.
Effects == SelectSeq(log, IsEffect)

EffectsAt(op) == { i \in 1..Len(Effects) : Effects[i].op = op }

\* The calls that hand over a selected pre-transform.
SelectCalls == { i \in 1..Len(log) : log[i].op \in {"update_swapchain", "set_pre_transform"} }

\* What the detector's condition is on the values the update found.
StartNeedsRecreate ==
    /\ start.surface.extent = start.rc_surface_extent
    /\ start.pre_rotate
    /\ start.surface.transform # start.swapchain.transform

StartToggled == start.pre_rotate # start.last_pre_rotate

(***************************************************************************)
(* C1: select_pre_transform returns exactly the queried current transform  *)
(* when pre_rotate is true and Identity when pre_rotate is false, whatever *)
(* the queried transform and extent are: every pre-transform handed to the *)
(* render context is that function of pre_rotate and of the properties the *)
(* query just before it returned.                                          *)
(***************************************************************************)
C1_SelectPreTransform ==
    \A i \in SelectCalls :
        /\ i > 1
        /\ log[i - 1].op = "query"
        /\ pre_rotate => log[i].transform = log[i - 1].props.transform
        /\ ~pre_rotate => log[i].transform = VK_SURFACE_TRANSFORM_IDENTITY_BIT_KHR

C1_Witness ==
    /\ pc = "base_update"
    /\ ~pre_rotate
    /\ \E i \in SelectCalls :
          /\ log[i].op = "set_pre_transform"
          /\ log[i - 1].props.transform = VK_SURFACE_TRANSFORM_HORIZONTAL_MIRROR_ROTATE_90_BIT_KHR
          /\ log[i].transform = VK_SURFACE_TRANSFORM_IDENTITY_BIT_KHR

(***************************************************************************)
(* C2: handle_no_resize_rotations calls recreate_swapchain if and only if  *)
(* the queried extent equals the render context's surface extent,          *)
(* pre_rotate is true and the queried transform differs from the           *)
(* swapchain's; so never when the queried extent differs. Checked in the   *)
(* state the detector leaves: inside its recreation (pc = wait_idle,       *)
(* returning to the toggle check) or at the toggle check with no           *)
(* recreation done.                                                        *)
(***************************************************************************)
C2_DetectorIff ==
    /\ (pc = "wait_idle" /\ ret = "toggle") => StartNeedsRecreate
    /\ (pc = "toggle" /\ recs = << >>) => ~StartNeedsRecreate

C2_Witness ==
    /\ pc = "wait_idle"
    /\ ret = "toggle"
    /\ start.surface.transform = VK_SURFACE_TRANSFORM_ROTATE_270_BIT_KHR
    /\ start.swapchain.transform = VK_SURFACE_TRANSFORM_ROTATE_90_BIT_KHR

(***************************************************************************)
(* C3, as claimed: in every reachable state the swapchain's transform is   *)
(* the surface's current transform when pre_rotate is true and Identity    *)
(* when it is false.                                                       *)
(***************************************************************************)
C3_Original ==
    /\ pre_rotate => swapchain.transform = surface.transform
    /\ ~pre_rotate => swapchain.transform = VK_SURFACE_TRANSFORM_IDENTITY_BIT_KHR

(***************************************************************************)
(* C3, amended: when an update during which the surface did not change     *)
(* has set the pre-transform and is about to begin the frame, and the      *)
(* surface extent equals the render context's surface extent, the          *)
(* swapchain's transform is the surface's current transform if pre_rotate  *)
(* is true and Identity if it is false.                                    *)
(***************************************************************************)
C3_AtFrameBegin ==
    (pc = "base_update" /\ ~changed /\ surface.extent = rc_surface_extent) =>
        /\ pre_rotate => swapchain.transform = surface.transform
        /\ ~pre_rotate => swapchain.transform = VK_SURFACE_TRANSFORM_IDENTITY_BIT_KHR

C3_Witness ==
    /\ pc = "base_update"
    /\ ~changed
    /\ surface.extent = rc_surface_extent
    /\ pre_rotate
    /\ start.swapchain.transform = VK_SURFACE_TRANSFORM_ROTATE_90_BIT_KHR
    /\ swapchain.transform = VK_SURFACE_TRANSFORM_ROTATE_180_BIT_KHR

(***************************************************************************)
(* C4: every recreate_swapchain first waits for the device to be idle,     *)
(* then has the render context rebuild the swapchain with the render       *)
(* context's surface extent and the selected pre-transform, then resizes   *)
(* the Gui to that extent: each rebuild has an idle wait as the call just  *)
(* before it and a Gui resize as the call just after it, so no frame       *)
(* begins between the wait and the end of the recreation.                  *)
(***************************************************************************)
C4_RecreateOrder ==
    /\ \A i \in EffectsAt("wait_idle") :
          IF i < Len(Effects)
          THEN Effects[i + 1].op \in {"update_swapchain", "query_failed"}
          ELSE pc = "update_swapchain"
    /\ \A i \in EffectsAt("update_swapchain") :
          /\ i > 1
          /\ Effects[i - 1].op = "wait_idle"
          /\ Effects[i].extent = start.rc_surface_extent
          /\ IF i < Len(Effects)
             THEN Effects[i + 1].op = "gui_resize"
             ELSE pc = "gui_resize"
    /\ \A i \in EffectsAt("gui_resize") :
          /\ i > 2
          /\ Effects[i - 1].op = "update_swapchain"
          /\ Effects[i].extent = Effects[i - 1].extent
    /\ \A i \in 1..Len(log) :
          log[i].op = "update_swapchain" =>
              /\ log[i - 1].op = "query"
              /\ log[i].transform = IF pre_rotate THEN log[i - 1].props.transform
                                    ELSE VK_SURFACE_TRANSFORM_IDENTITY_BIT_KHR
    /\ pc \in {"update_swapchain", "gui_resize"} => EffectsAt("begin_frame") = {}

C4_Witness ==
    /\ pc = "draw_gui"
    /\ Len(Effects) = 7
    /\ Effects[1].op = "wait_idle"
    /\ Effects[2].op = "update_swapchain"
    /\ Effects[2].transform = VK_SURFACE_TRANSFORM_ROTATE_90_BIT_KHR
    /\ Effects[3].op = "gui_resize"
    /\ Effects[7].op = "begin_frame"

(***************************************************************************)
(* C5: an update that does not fail sets the camera's aspect ratio (to     *)
(* width / height of the swapchain's extent), sets the camera's            *)
(* pre-rotation and passes the selected pre-transform to the render        *)
(* context, all before the frame begins; every recreation of that update   *)
(* comes before these three calls.                                         *)
(***************************************************************************)
C5_StepsBeforeFrame ==
    LET n == Len(Effects)
        last == IF pc = "draw_gui" THEN n - 1 ELSE n
    IN  /\ \A i \in EffectsAt("begin_frame") : i = n /\ pc = "draw_gui"
        /\ pc = "draw_gui" => Effects[n].op = "begin_frame"
        /\ pc \in {"base_update", "draw_gui"} =>
              /\ last >= 3
              /\ Effects[last - 2].op = "set_aspect_ratio"
              /\ Effects[last - 1].op = "set_pre_rotation"
              /\ Effects[last].op = "set_pre_transform"
              /\ \A i \in 1..(last - 3) :
                    Effects[i].op \in {"wait_idle", "update_swapchain", "gui_resize"}
        /\ pc = "base_update" =>
              /\ Effects[n - 2].aspect = << swapchain.extent[1], swapchain.extent[2] >>
              /\ Effects[n].transform = rc_pre_transform

C5_Witness ==
    /\ pc = "draw_gui"
    /\ Len(recs) = 1
    /\ start.surface.extent # start.rc_surface_extent
    /\ Len(Effects) = 7

DegreesOf(t) ==
    CASE t = VK_SURFACE_TRANSFORM_ROTATE_90_BIT_KHR -> 90
      [] t = VK_SURFACE_TRANSFORM_ROTATE_180_BIT_KHR -> 180
      [] t = VK_SURFACE_TRANSFORM_ROTATE_270_BIT_KHR -> 270
      [] t = VK_SURFACE_TRANSFORM_FLAG_BITS_MAX_ENUM_KHR -> 90
      [] OTHER -> 0

\* The update has passed the toggle check and not yet returned.
PastToggle == pc \in {"camera", "pre_transform", "base_update", "draw_gui"}

(***************************************************************************)
(* C7: an update that finds pre_rotate different from last_pre_rotate      *)
(* recreates the swapchain with the render context's surface extent and    *)
(* the transform selected under the new policy (the queried transform for  *)
(* application-handled, Identity for compositor-handled), as its last      *)
(* recreation, and has last_pre_rotate equal to pre_rotate before the      *)
(* frame begins; an update that finds them equal recreates only if the     *)
(* detector asks for it.                                                   *)
(***************************************************************************)
C7_ToggleRecreates ==
    PastToggle =>
        /\ last_pre_rotate = pre_rotate
        /\ StartToggled =>
              LET n == Len(recs)
                  r == EffectsAt("update_swapchain")
                  k == CHOOSE i \in r : \A j \in r : j <= i
              IN  /\ n = (IF StartNeedsRecreate THEN 2 ELSE 1)
                  /\ r # {}
                  /\ Effects[k].extent = start.rc_surface_extent
                  /\ Effects[k].transform = IF pre_rotate THEN recs[n].queried.transform
                                            ELSE VK_SURFACE_TRANSFORM_IDENTITY_BIT_KHR
                  /\ recs[n].swapchain = [extent |-> start.rc_surface_extent,
                                          transform |-> Effects[k].transform]
                  /\ pc # "draw_gui" => swapchain = recs[n].swapchain
                  /\ ~changed => recs[n].queried = start.surface
        /\ ~StartToggled => Len(recs) = (IF StartNeedsRecreate THEN 1 ELSE 0)

C7_Witness ==
    /\ pc = "base_update"
    /\ ~start.last_pre_rotate
    /\ pre_rotate
    /\ last_pre_rotate
    /\ ~changed
    /\ start.surface.extent # start.rc_surface_extent
    /\ surface.transform = VK_SURFACE_TRANSFORM_ROTATE_180_BIT_KHR
    /\ swapchain.transform = VK_SURFACE_TRANSFORM_ROTATE_180_BIT_KHR
    /\ Len(recs) = 1

(***************************************************************************)
(* C8: in application-handled mode, when an update finds the surface       *)
(* extent equal to the render context's surface extent and the surface     *)
(* transform T different from the swapchain's, and the surface stays as it *)
(* is during the update, the update recreates the swapchain, the           *)
(* swapchain's transform is T afterwards and the camera pre-rotation set   *)
(* in the same update is the rotation of T about (0,0,-1).                 *)
(***************************************************************************)
C8_RotationCaught ==
    (pc = "base_update" /\ ~changed /\ StartNeedsRecreate) =>
        LET n == Len(Effects)
        IN  /\ Len(recs) >= 1
            /\ EffectsAt("update_swapchain") # {}
            /\ swapchain.transform = start.surface.transform
            /\ swapchain.extent = start.rc_surface_extent
            /\ Effects[n - 1].op = "set_pre_rotation"
            /\ Effects[n - 1].degrees = DegreesOf(start.surface.transform)
            /\ Effects[n - 1].axis = << 0, 0, -1 >>

C8_Witness ==
    /\ pc = "base_update"
    /\ ~changed
    /\ StartNeedsRecreate
    /\ ~StartToggled
    /\ start.swapchain.transform = VK_SURFACE_TRANSFORM_IDENTITY_BIT_KHR
    /\ swapchain.transform = VK_SURFACE_TRANSFORM_ROTATE_90_BIT_KHR
    /\ Effects[Len(Effects) - 1].degrees = 90

(***************************************************************************)
(* C9: an update that finds pre_rotate and last_pre_rotate both false      *)
(* makes no device-idle wait, no swapchain rebuild and no Gui resize,      *)
(* leaves the swapchain as it found it up to the beginning of the frame,   *)
(* and passes Identity as the pre-transform, whatever the surface reports. *)
(***************************************************************************)
C9_CompositorUntouched ==
    (start.valid /\ ~start.pre_rotate /\ ~start.last_pre_rotate) =>
        /\ EffectsAt("wait_idle") = {}
        /\ EffectsAt("update_swapchain") = {}
        /\ EffectsAt("gui_resize") = {}
        /\ recs = << >>
        /\ pc # "draw_gui" => swapchain = start.swapchain
        /\ \A i \in EffectsAt("set_pre_transform") :
              Effects[i].transform = VK_SURFACE_TRANSFORM_IDENTITY_BIT_KHR
        /\ pc = "base_update" =>
              /\ EffectsAt("set_pre_transform") # {}
              /\ rc_pre_transform = VK_SURFACE_TRANSFORM_IDENTITY_BIT_KHR

C9_Witness ==
    /\ pc = "base_update"
    /\ ~start.pre_rotate
    /\ ~start.last_pre_rotate
    /\ start.surface.extent = start.rc_surface_extent
    /\ start.surface.transform = VK_SURFACE_TRANSFORM_ROTATE_90_BIT_KHR
    /\ swapchain.transform = VK_SURFACE_TRANSFORM_IDENTITY_BIT_KHR
    /\ rc_pre_transform = VK_SURFACE_TRANSFORM_IDENTITY_BIT_KHR

(***************************************************************************)
(* C10: when recreate_swapchain runs twice in succession and its two       *)
(* capability queries report the same surface extent and transform, with   *)
(* pre_rotate unchanged, the second call leaves the swapchain's extent and *)
(* transform and the Gui size as the first call left them; the calls made  *)
(* are wait, rebuild, resize twice over, with equal arguments.             *)
(***************************************************************************)
C10_RecreateIdempotent ==
    (Len(recs) = 2 /\ recs[1].queried = recs[2].queried) =>
        /\ recs[2].swapchain = recs[1].swapchain
        /\ recs[2].gui_size = recs[1].gui_size
        /\ pc = "toggle_done" => swapchain = recs[1].swapchain
        /\ Len(Effects) >= 6
        /\ Effects[1].op = "wait_idle" /\ Effects[4].op = "wait_idle"
        /\ Effects[2].op = "update_swapchain" /\ Effects[5] = Effects[2]
        /\ Effects[3].op = "gui_resize" /\ Effects[6] = Effects[3]

C10_Witness ==
    /\ pc = "toggle_done"
    /\ Len(recs) = 2
    /\ recs[1].queried = recs[2].queried
    /\ start.swapchain.transform = VK_SURFACE_TRANSFORM_IDENTITY_BIT_KHR
    /\ swapchain.transform = VK_SURFACE_TRANSFORM_ROTATE_90_BIT_KHR

(***************************************************************************)
(* C11: a failed capability query ends the update at once. The failed      *)
(* query is the last call of the update: it is not issued again and no     *)
(* later step runs. A failure inside recreate_swapchain (after the idle    *)
(* wait) leaves the swapchain unbuilt, a failure in the step that selects  *)
(* the pre-transform for the render context leaves set_pre_transform       *)
(* uncalled, and in no case does the base update begin the frame.          *)
(***************************************************************************)
C11_QueryFailureFatal ==
    /\ \A i \in 1..Len(log) :
          log[i].op = "query_failed" => (i = Len(log) /\ pc = "aborted")
    /\ pc = "aborted" =>
          LET n == Len(log)
          IN  /\ n >= 1
              /\ log[n].op = "query_failed"
              /\ EffectsAt("begin_frame") = {}
              /\ n > 1 => log[n - 1].op \in {"wait_idle", "set_pre_rotation"}
              /\ (n > 1 /\ log[n - 1].op = "wait_idle") =>
                    /\ Cardinality(EffectsAt("update_swapchain")) = Len(recs)
                    /\ Cardinality(EffectsAt("wait_idle")) = Len(recs) + 1
                    /\ swapchain = IF recs = << >> THEN start.swapchain
                                   ELSE recs[Len(recs)].swapchain
              /\ (n > 1 /\ log[n - 1].op = "set_pre_rotation") =>
                    EffectsAt("set_pre_transform") = {}

C11_Witness ==
    /\ pc = "aborted"
    /\ Len(log) > 1
    /\ log[Len(log) - 1].op = "wait_idle"
    /\ log[Len(log)].op = "query_failed"
    /\ start.pre_rotate
    /\ start.surface.transform = VK_SURFACE_TRANSFORM_ROTATE_90_BIT_KHR
    /\ swapchain.transform = VK_SURFACE_TRANSFORM_IDENTITY_BIT_KHR

\* The calls of recreate_swapchain the update in progress has made so far.
RecreateCalls == EffectsAt("wait_idle")

(***************************************************************************)
(* C12: within one update recreate_swapchain is called at most once: the   *)
(* detector path and the toggle path never both recreate in the same       *)
(* frame.                                                                  *)
(***************************************************************************)
C12_AtMostOneRecreate == Cardinality(RecreateCalls) <= 1

====
